---- MODULE Spec2Model ----
(***************************************************************************)
(* A model of the FIR filter library (fir_filter.c / fir_filter.h): the    *)
(* windowed-sinc coefficient generator, the convolution engine and the     *)
(* filter lifecycle, together with the heap they allocate from.            *)
(*                                                                         *)
(* float values are modelled as fixed-point numbers: a finite float is the *)
(* integer round(x * SCALE); NaN (the result of 0/0) is a value of its own.*)
(***************************************************************************)
EXTENDS Integers, Sequences, FiniteSets, TLC

(***************************************************************************)
(* Bounds of the model.                                                    *)
(***************************************************************************)
\* largest kernel_length a caller requests
MaxKernel == 4
\* largest signal_length a caller passes
MaxSignal == 5

(***************************************************************************)
(* float arithmetic                                                        *)
(***************************************************************************)
\* one unit of a finite float, in fixed-point steps
SCALE == 10 ^ 6
\* the unit the Bessel series is accumulated in (I0(10) is about 2816)
KSCALE == 10 ^ 4

Abs(a) == IF a < 0 THEN 0 - a ELSE a
Sign(a) == IF a < 0 THEN 0 - 1 ELSE 1
Min(a, b) == IF a < b THEN a ELSE b

\* a / b rounded to nearest, for a >= 0 and b > 0
RoundDiv(a, b) == (a \div b) + (IF 2 * (a % b) >= b THEN 1 ELSE 0)

\* a * b / 10^6 rounded, for a, b >= 0, by parts of three digits: the product
\* itself does not fit the checker's integers
MulScaled(a, b) ==
    LET ah == a \div 1000
        al == a % 1000
        bh == b \div 1000
        bl == b % 1000
        cross == ah * bl + al * bh
    IN  ah * bh + (cross \div 1000) + RoundDiv((cross % 1000) * 1000 + al * bl, 10 ^ 6)

\* a * 10^digits / b rounded, for a >= 0 and 0 < b < 2 * 10^8, digit by digit
RECURSIVE DivDigits(_, _, _, _)
DivDigits(q, r, b, digits) ==
    IF digits = 0 THEN q + (IF 2 * r >= b THEN 1 ELSE 0)
    ELSE DivDigits(10 * q + (10 * r) \div b, (10 * r) % b, b, digits - 1)

DivScaled(a, b, digits) == DivDigits(a \div b, a % b, b, digits)

\* signed forms: the magnitude is rounded, the sign is the result's
SMul(a, b) == Sign(a) * Sign(b) * MulScaled(Abs(a), Abs(b))
SDiv(a, b) == Sign(a) * Sign(b) * DivScaled(Abs(a), Abs(b), 6)

\* a float: NaN, or a finite value v / SCALE
NaN == [nan |-> TRUE, v |-> 0]
F(v) == [nan |-> FALSE, v |-> v]
\* the float of an int
ToFloat(i) == F(i * SCALE)

FAdd(a, b) == IF a.nan \/ b.nan THEN NaN ELSE F(a.v + b.v)
FSub(a, b) == IF a.nan \/ b.nan THEN NaN ELSE F(a.v - b.v)
FMul(a, b) == IF a.nan \/ b.nan THEN NaN ELSE F(SMul(a.v, b.v))
\* x / 0 is taken only as 0 / 0 in this program, which IEEE 754 gives as NaN
FDiv(a, b) ==
    IF a.nan \/ b.nan \/ b.v = 0 THEN NaN ELSE F(SDiv(a.v, b.v))

\* pi, as the float the source's M_PI converts to
M_PI == 3141593

\* the Taylor series of sin (from term y, k = 1) and of cos (from term 1,
\* k = 0) at a fixed-point y: term k+2 is term k times -y^2 / ((k+1) (k+2))
RECURSIVE Series(_, _, _, _)
Series(y2, term, k, acc) ==
    IF term = 0 \/ k > 25 THEN acc
    ELSE LET next == 0 - Sign(term) * RoundDiv(MulScaled(Abs(term), y2), (k + 1) * (k + 2))
         IN  Series(y2, next, k + 2, acc + next)

SinSmall(y) == Series(SMul(y, y), y, 1, y)
CosSmall(y) == Series(SMul(y, y), SCALE, 0, SCALE)

\* sin and cos of a fixed-point x >= 0, reduced to [-pi/2, pi/2] first
SinPos(x) ==
    LET r == x % (2 * M_PI)
    IN  IF r <= M_PI \div 2 THEN SinSmall(r)
        ELSE IF r <= M_PI + M_PI \div 2 THEN SinSmall(M_PI - r)
        ELSE SinSmall(r - 2 * M_PI)

CosPos(x) ==
    LET r == x % (2 * M_PI)
    IN  IF r <= M_PI \div 2 THEN CosSmall(r)
        ELSE IF r <= M_PI + M_PI \div 2 THEN 0 - CosSmall(r - M_PI)
        ELSE CosSmall(2 * M_PI - r)

\* sinf and cosf: odd and even in their argument
sinf(a) == IF a.nan THEN NaN ELSE F(Sign(a.v) * SinPos(Abs(a.v)))
cosf(a) == IF a.nan THEN NaN ELSE F(CosPos(Abs(a.v)))

\* sqrtf of a fixed-point v in (0, SCALE]: Newton's iteration from 1
RECURSIVE SqrtIter(_, _, _)
SqrtIter(v, r, n) ==
    LET next == (r + DivScaled(v, r, 6)) \div 2
    IN  IF n = 0 \/ next = r THEN r ELSE SqrtIter(v, next, n - 1)

sqrtf(a) ==
    IF a.nan \/ a.v < 0 THEN NaN
    ELSE IF a.v = 0 THEN F(0) ELSE F(SqrtIter(a.v, SCALE, 40))

(***************************************************************************)
(* Wide-range floats: the powers and factorials of the Bessel series run   *)
(* from 1e-18 to 1e25, so they are kept as <<m, e>> = m * 10^e with a      *)
(* mantissa of seven digits (m = 0 for zero), as a float keeps them.       *)
(***************************************************************************)
DIGITS == 10 ^ 6

RECURSIVE DNorm(_, _)
DNorm(m, e) ==
    IF m = 0 THEN <<0, 0>>
    ELSE IF m >= 10 * DIGITS THEN DNorm((m + 5) \div 10, e + 1)
    ELSE IF m < DIGITS THEN DNorm(m * 10, e - 1)
    ELSE <<m, e>>

DMul(a, b) == DNorm(MulScaled(a[1], b[1]), a[2] + b[2] + 6)
DDiv(a, b) == DNorm(DivScaled(a[1], b[1], 7), a[2] - b[2] - 7)

RECURSIVE Pow10(_)
Pow10(n) == IF n = 0 THEN 1 ELSE 10 * Pow10(n - 1)

\* m * 10^e in units of 1/KSCALE, rounded
DToFixed(a) ==
    IF a[1] = 0 \/ a[2] < 0 - 12 THEN 0
    ELSE IF a[2] >= 0 - 4 THEN a[1] * Pow10(a[2] + 4)
    ELSE RoundDiv(a[1], Pow10(0 - a[2] - 4))

\* list with the product of its last entry (1 for none) and x appended
AppendProduct(list, x) ==
    Append(list, DMul(IF list = << >> THEN DNorm(1, 0) ELSE list[Len(list)], x))

\* powf(a, 2.0f)
squared(a) == DMul(a, a)

\* powf(x, (float) j) for a wide float x >= 0 and j >= 1, by squaring
RECURSIVE powf(_, _)
powf(x, j) ==
    IF j = 1 THEN x
    ELSE IF j % 2 = 0 THEN squared(powf(x, j \div 2))
    ELSE DMul(x, powf(x, j - 1))

(***************************************************************************)
(* fir_filter.h: the enumerations                                          *)
(***************************************************************************)
FilterType == {"LOW_PASS", "HIGH_PASS"}
WindowType ==
    {"RECT", "HANNING", "HAMMING", "BLACKMAN", "KAISER_B6", "KAISER_B8", "KAISER_B10"}
NULL == 0

(***************************************************************************)
(* fir_filter.c: the coefficient generator                                 *)
(***************************************************************************)
\* number of terms of the Bessel series
BESSEL_FUNCTION_APPROXIMATION == 25

\* the table 1!, 2!, ..., up_to!, entry i from entry i-1
RECURSIVE generate_factorials(_)
generate_factorials(up_to) ==
    IF up_to = 0 THEN << >>
    ELSE AppendProduct(generate_factorials(up_to - 1), DNorm(up_to, 0))

\* the table generate_sinc fills for a Kaiser window
factorial_table == generate_factorials(BESSEL_FUNCTION_APPROXIMATION)

\* what the iterations j = first..last of the loop of I0 add to result, in
\* units of 1/KSCALE
RECURSIVE I0Loop(_, _, _, _)
I0Loop(half, factorial_list, first, last) ==
    IF first = last
    THEN DToFixed(squared(DDiv(powf(half, first), factorial_list[first])))
    ELSE I0Loop(half, factorial_list, first, (first + last) \div 2)
         + I0Loop(half, factorial_list, (first + last) \div 2 + 1, last)

\* x / 2.0f as a wide float
half_x(x) == DNorm(FDiv(x, ToFloat(2)).v, 0 - 6)

\* I0(x) for a float x >= 0; the result is a float in units of 1/KSCALE
I0(x, factorial_list) ==
    IF x.nan THEN NaN
    ELSE F(KSCALE + I0Loop(half_x(x), factorial_list, 1, BESSEL_FUNCTION_APPROXIMATION))

\* (float) (2 * n) / (float) (kernel_length - 1)
normalized_win_pos(kernel_length, n) == FDiv(ToFloat(2 * n), ToFloat(kernel_length - 1))

\* beta_param * sqrtf(1.0f - powf(normalized_win_pos, 2.0f))
nominator_term(beta_param, win_pos) ==
    FMul(beta_param, sqrtf(FSub(ToFloat(1), FMul(win_pos, win_pos))))

\* the quotient of two results of I0
I0_ratio(I0_term, I0_beta) ==
    IF I0_term.nan \/ I0_beta.nan THEN NaN ELSE F(DivScaled(I0_term.v, I0_beta.v, 6))

kaiser_window_function(beta_param, I0_beta, factorial_list, kernel_length, n) ==
    I0_ratio(I0(nominator_term(beta_param, normalized_win_pos(kernel_length, n)),
                factorial_list),
             I0_beta)

\* (float) (2 * n) * (float) M_PI / (float) (kernel_length - 1)
normalized_ang_pos(kernel_length, n) ==
    FDiv(FMul(ToFloat(2 * n), F(M_PI)), ToFloat(kernel_length - 1))

\* a window that is the Hamming window whatever the type (a faulty variant)
window_at_hamming(window, ang_pos) ==
    FAdd(F(540000), FMul(F(460000), cosf(ang_pos)))

\* the window at an angular position
window_at(window, ang_pos) ==
    CASE window = "RECT" -> ToFloat(1)
      [] window = "HANNING" -> FAdd(F(500000), FMul(F(500000), cosf(ang_pos)))
      [] window = "HAMMING" -> FAdd(F(540000), FMul(F(460000), cosf(ang_pos)))
      [] window = "BLACKMAN" ->
            FAdd(FAdd(F(420000), FMul(F(500000), cosf(ang_pos))),
                 FMul(F(80000), cosf(FMul(ToFloat(2), ang_pos))))
      [] OTHER -> ToFloat(1)

window_function(window, kernel_length, n) ==
    window_at(window, normalized_ang_pos(kernel_length, n))

is_window_kaiser(window) == window \in {"KAISER_B6", "KAISER_B8", "KAISER_B10"}

beta_param(window) ==
    CASE window = "KAISER_B6" -> ToFloat(6)
      [] window = "KAISER_B8" -> ToFloat(8)
      [] window = "KAISER_B10" -> ToFloat(10)
      [] OTHER -> ToFloat(0)

\* 2.0f * cutoff_freq / sample_rate, for whole numbers of Hz
normalized_cutoff_freq(cutoff_freq, sample_rate) ==
    F(DivScaled(2 * cutoff_freq, sample_rate, 6))

\* (float) M_PI * (float) n
pi_times_n(n) == FMul(F(M_PI), ToFloat(n))

\* the pure sinc coefficient of tap n
pure_sinc(cutoff, n) ==
    IF n = 0 THEN cutoff ELSE FDiv(sinf(FMul(cutoff, pi_times_n(n))), pi_times_n(n))

\* the window term of tap n
window_term(window, kernel_length, factorial_list, I0_beta, n) ==
    IF is_window_kaiser(window)
    THEN kaiser_window_function(beta_param(window), I0_beta, factorial_list, kernel_length, n)
    ELSE window_function(window, kernel_length, n)

\* *coefficient_ptr *= -1, and += 1 for the center tap
spectral_inversion(coefficient, n) ==
    IF n = 0 THEN FAdd(FMul(coefficient, ToFloat(0 - 1)), ToFloat(1))
    ELSE FMul(coefficient, ToFloat(0 - 1))

\* the value *coefficient_ptr holds when the loop body of generate_sinc ends
sinc_tap(type, window, cutoff, kernel_length, factorial_list, I0_beta, n) ==
    IF type = "HIGH_PASS"
    THEN spectral_inversion(
             FMul(pure_sinc(cutoff, n),
                  window_term(window, kernel_length, factorial_list, I0_beta, n)), n)
    ELSE FMul(pure_sinc(cutoff, n),
              window_term(window, kernel_length, factorial_list, I0_beta, n))

\* (kernel_length - 1) / 2 in int arithmetic, which truncates
half_M(kernel_length) ==
    IF kernel_length < 1 THEN 0 - ((1 - kernel_length) \div 2)
    ELSE (kernel_length - 1) \div 2

\* a store of tap n at index n, without the shift (a faulty variant)
tap_index_unshifted(half, n) == n

\* the index generate_sinc stores tap n at
tap_index(half, n) == n + half

\* the table and the I0(beta) that generate_sinc computes for a Kaiser window
kaiser_factorial_list(window) ==
    IF is_window_kaiser(window) THEN factorial_table ELSE << >>
kaiser_I0_beta(window) ==
    IF is_window_kaiser(window) THEN I0(beta_param(window), factorial_table) ELSE F(0)

\* the stores of generate_sinc's loop: <<index, value>> for n = -half..half
sinc_loop(type, window, cutoff, kernel_length, factorial_list, I0_beta, half) ==
    [k \in 1..(2 * half + 1) |->
        <<tap_index(half, k - 1 - half),
          sinc_tap(type, window, cutoff, kernel_length, factorial_list, I0_beta,
                   k - 1 - half)>>]

sinc_writes(type, window, cutoff_freq, sample_rate, kernel_length) ==
    sinc_loop(type, window, normalized_cutoff_freq(cutoff_freq, sample_rate), kernel_length,
              kaiser_factorial_list(window), kaiser_I0_beta(window), half_M(kernel_length))

(***************************************************************************)
(* The heap: malloc and free.  A block is live from the malloc that        *)
(* returns it to the free that releases it; frees counts the calls of free *)
(* on it since that malloc, within the call that is running.  A struct     *)
(* block holds the FIRFilter fields, a float block holds its elements;     *)
(* what a released block holds is indeterminate and is not kept.           *)
(***************************************************************************)
\* number of heap blocks
HeapSize == 3
Addr == 1..HeapSize

NoFields == [type |-> "LOW_PASS", window |-> "RECT", cutoff_freq |-> 0,
             kernel_length |-> 0, sample_rate |-> 0, coefficients |-> NULL]
NoBlock == [live |-> FALSE, frees |-> 0, fields |-> NoFields, data |-> << >>]

\* an element of a float array that malloc returned and nobody wrote yet
Indeterminate == [nan |-> TRUE, v |-> 1]

\* the block malloc returns: the lowest one that is not live
malloc(h) == CHOOSE a \in Addr : ~h[a].live /\ \A b \in Addr : b < a => h[b].live

alloc_struct(h, a) == [h EXCEPT ![a] = [NoBlock EXCEPT !.live = TRUE]]
alloc_floats(h, a, n) ==
    [h EXCEPT ![a] = [NoBlock EXCEPT !.live = TRUE,
                                     !.data = [i \in 1..n |-> Indeterminate]]]
free(h, a) ==
    IF a = NULL THEN h
    ELSE [h EXCEPT ![a] = [NoBlock EXCEPT !.frees = h[a].frees + 1]]

\* the blocks that are live
Live(h) == {a \in Addr : h[a].live}

\* the heap as a call finds it: the frees of earlier calls are history
AtCall(h) == [a \in Addr |-> IF h[a].live THEN [h[a] EXCEPT !.frees = 0] ELSE NoBlock]

(***************************************************************************)
(* fir_filter.c: create_fir_filter                                         *)
(***************************************************************************)
\* a validation that lets a kernel_length of 0 through (a faulty variant)
invalid_parameters_no_length(cutoff_freq, sample_rate, kernel_length) ==
    cutoff_freq <= 0 \/ sample_rate <= 0 \/ kernel_length < 0

\* a validation that also rejects a cutoff above half the sample rate (a
\* faulty variant)
invalid_parameters_nyquist(cutoff_freq, sample_rate, kernel_length) ==
    cutoff_freq <= 0 \/ sample_rate <= 0 \/ kernel_length <= 0
        \/ 2 * cutoff_freq > sample_rate

\* the validation that precedes every allocation
invalid_parameters(cutoff_freq, sample_rate, kernel_length) ==
    cutoff_freq <= 0 \/ sample_rate <= 0 \/ kernel_length <= 0

\* a kernel length left as requested (a faulty variant)
odd_kernel_length_kept(kernel_length) == kernel_length

\* the kernel length made odd
odd_kernel_length(kernel_length) ==
    IF kernel_length % 2 = 0 THEN kernel_length + 1 ELSE kernel_length

\* the coefficient array after the stores <<index, value>> of generate_sinc's loop
store_taps(data, taps) ==
    [i \in 1..Len(data) |->
        IF \E k \in 1..Len(taps) : taps[k][1] = i - 1
        THEN taps[CHOOSE k \in 1..Len(taps) : taps[k][1] = i - 1][2]
        ELSE data[i]]

\* what generate_sinc does when the factorial table cannot be allocated
factorial_failure(h, filter) == free(free(h, h[filter].fields.coefficients), filter)

\* the heap after the stores of the loop through filter->coefficients
fill_coefficients(h, filter, taps) ==
    [h EXCEPT ![h[filter].fields.coefficients].data = store_taps(@, taps)]

\* a generate_sinc that returns without the free of the table (a faulty
\* variant)
generate_sinc_loop_leak(h, filter, factorial_list, taps) ==
    [heap |-> fill_coefficients(h, filter, taps),
     allocated |-> IF factorial_list # NULL THEN {factorial_list} ELSE {},
     written |-> {taps[k][1] : k \in 1..Len(taps)},
     failed |-> "none", printed |-> FALSE]

\* generate_sinc from its loop on: the stores, then the free of the table
\* if there is one
generate_sinc_loop(h, filter, factorial_list, taps) ==
    [heap |-> IF factorial_list # NULL
              THEN free(fill_coefficients(h, filter, taps), factorial_list)
              ELSE fill_coefficients(h, filter, taps),
     allocated |-> IF factorial_list # NULL THEN {factorial_list} ELSE {},
     written |-> {taps[k][1] : k \in 1..Len(taps)},
     failed |-> "none", printed |-> FALSE]

\* the stores that generate_sinc makes for the fields of a filter
filter_taps(fields) ==
    sinc_writes(fields.type, fields.window, fields.cutoff_freq, fields.sample_rate,
                fields.kernel_length)

\* generate_sinc(filter); factorial_fails: the malloc of the table returns NULL
generate_sinc(h, filter, factorial_fails) ==
    IF is_window_kaiser(h[filter].fields.window) /\ factorial_fails
    THEN [heap |-> factorial_failure(h, filter), allocated |-> {}, written |-> {},
          failed |-> "factorial", printed |-> TRUE]
    ELSE IF is_window_kaiser(h[filter].fields.window)
    THEN generate_sinc_loop(alloc_floats(h, malloc(h), BESSEL_FUNCTION_APPROXIMATION),
                            filter, malloc(h), filter_taps(h[filter].fields))
    ELSE generate_sinc_loop(h, filter, NULL, filter_taps(h[filter].fields))

\* a failure path that returns without free(filter) (a faulty variant)
coefficients_failure_leak(h, filter) == h

\* what create_fir_filter does when the coefficient array cannot be allocated
coefficients_failure(h, filter) == free(h, filter)

\* the heap after filter = malloc(sizeof(FIRFilter)) and the stores to the
\* fields of the struct
new_filter(h, filter, type, window, cutoff_freq, kernel_length, sample_rate) ==
    [alloc_struct(h, filter) EXCEPT ![filter].fields =
        [type |-> type, window |-> window, cutoff_freq |-> cutoff_freq,
         kernel_length |-> kernel_length, sample_rate |-> sample_rate,
         coefficients |-> NULL]]

\* the heap after filter->coefficients = malloc(kernel_length * sizeof(float))
new_coefficients(h, filter, coefficients) ==
    [alloc_floats(h, coefficients, h[filter].fields.kernel_length)
        EXCEPT ![filter].fields.coefficients = coefficients]

\* generate_sinc(filter); return filter; where g is what generate_sinc did
return_filter(filter, coefficients, g) ==
    [heap |-> g.heap, ret |-> filter,
     allocated |-> {filter, coefficients} \cup g.allocated,
     written |-> g.written, failed |-> g.failed, printed |-> g.printed]

\* create_fir_filter from the allocation of the coefficients on
create_coefficients(h, filter, coefficients, fail) ==
    IF fail = "coefficients"
    THEN [heap |-> coefficients_failure(h, filter), ret |-> NULL,
          allocated |-> {filter}, written |-> {},
          failed |-> "coefficients", printed |-> TRUE]
    ELSE return_filter(filter, coefficients,
                       generate_sinc(new_coefficients(h, filter, coefficients), filter,
                                     fail = "factorial"))

\* create_fir_filter from the stores to the fields on
create_fields(h, filter, fail) == create_coefficients(h, filter, malloc(h), fail)

\* create_fir_filter; fail: the malloc that returns NULL, if it is reached
create_fir_filter(h, type, window, cutoff_freq, kernel_length, sample_rate, fail) ==
    IF invalid_parameters(cutoff_freq, sample_rate, kernel_length)
    THEN [heap |-> h, ret |-> NULL, allocated |-> {}, written |-> {},
          failed |-> "parameters", printed |-> TRUE]
    ELSE IF fail = "struct"
    THEN [heap |-> h, ret |-> NULL, allocated |-> {}, written |-> {},
          failed |-> "struct", printed |-> TRUE]
    ELSE create_fields(new_filter(h, malloc(h), type, window, cutoff_freq,
                                  odd_kernel_length(kernel_length), sample_rate),
                       malloc(h), fail)

(***************************************************************************)
(* fir_filter.c: apply_fir_filter.  The caller's two signal buffers are    *)
(* sig.input and sig.output, at the addresses InAddr and OutAddr; they are *)
(* objects of their own, distinct from each other and from the heap blocks *)
(* of the filter.                                                          *)
(***************************************************************************)
InAddr == HeapSize + 1
OutAddr == HeapSize + 2

\* a check that lets output_signal == NULL through (a faulty variant)
invalid_arguments_no_output(h, filter, input_signal, output_signal, signal_length) ==
    \/ filter = NULL
    \/ h[filter].fields.coefficients = NULL
    \/ input_signal = NULL
    \/ signal_length < 0

\* the check that precedes the convolution
invalid_arguments(h, filter, input_signal, output_signal, signal_length) ==
    \/ filter = NULL
    \/ h[filter].fields.coefficients = NULL
    \/ input_signal = NULL
    \/ output_signal = NULL
    \/ signal_length < 0

\* the pointers that check dereferences: filter->coefficients is read only
\* after filter == NULL was found false
check_derefs(filter) == IF filter = NULL THEN {} ELSE {filter}

\* array[index], an indeterminate value outside the array
load(array, index) ==
    IF index \in 0..(Len(array) - 1) THEN array[index + 1] ELSE Indeterminate

\* a first loop that runs to kernel_length - 1 whatever the signal length,
\* and a second loop that sums one tap short (faulty variants)
first_loop_unclamped(kernel_length, signal_length) == 0..(kernel_length - 2)
second_taps_short(kernel_length) == 0..(kernel_length - 2)

\* the output indices of the two loops
first_loop(kernel_length, signal_length) ==
    0..(Min(kernel_length - 1, signal_length) - 1)
second_loop(kernel_length, signal_length) == (kernel_length - 1)..(signal_length - 1)
\* and the taps j each sums over
first_taps(i) == 0..i
second_taps(kernel_length) == 0..(kernel_length - 1)

\* loops without the statement output_signal[i] = 0 (a faulty variant)
zero_output_skipped(old) == old

\* output_signal[i] after output_signal[i] = 0, whatever it held
zero_output(old) == ToFloat(0)

\* output_signal[i], which holds start, after
\* += coefficients[j] * input_signal[i - j] for the taps j in increasing order
RECURSIVE accumulate(_, _, _, _, _)
accumulate(start, coefficients, input, i, taps) ==
    IF taps = {} THEN start
    ELSE LET j == CHOOSE t \in taps : \A u \in taps : u <= t
             sum == accumulate(start, coefficients, input, i, taps \ {j})
         IN  FAdd(sum, FMul(load(coefficients, j), load(input, i - j)))

\* loops that store into the input, or into the coefficients (faulty variants)
written_array_input(coefficients, input_signal, output_signal) == input_signal
written_array_coefficients(coefficients, input_signal, output_signal) == coefficients

\* the array the two loops store into
written_array(coefficients, input_signal, output_signal) == output_signal

\* the heap and the caller's buffers after the stores array[i] = values[i], i \in indices
store_samples(h, sig, array, indices, values) ==
    LET stored(old) == [k \in 1..Len(old) |->
                           IF (k - 1) \in indices THEN values[k - 1] ELSE old[k]]
    IN  [heap |-> IF array \in Addr THEN [h EXCEPT ![array].data = stored(@)] ELSE h,
         signals |-> IF array = InAddr THEN [sig EXCEPT !.input = stored(@)]
                     ELSE IF array = OutAddr THEN [sig EXCEPT !.output = stored(@)]
                     ELSE sig]

apply_fir_filter(h, filter, input_signal, output_signal, signal_length, sig) ==
    LET kernel_length == h[filter].fields.kernel_length
        coefficients == h[filter].fields.coefficients
        kernel == h[coefficients].data
        input == IF input_signal = InAddr THEN sig.input ELSE << >>
        first == first_loop(kernel_length, signal_length)
        second == second_loop(kernel_length, signal_length)
        taps(i) == IF i \in first THEN first_taps(i) ELSE second_taps(kernel_length)
        output == IF output_signal = OutAddr THEN sig.output ELSE << >>
        values == [i \in first \cup second |->
                      accumulate(zero_output(load(output, i)), kernel, input, i, taps(i))]
        after == store_samples(h, sig, written_array(coefficients, input_signal, output_signal),
                               first \cup second, values)
    IN  IF invalid_arguments(h, filter, input_signal, output_signal, signal_length)
        THEN [heap |-> h, signals |-> sig, derefs |-> check_derefs(filter), reads |-> {},
              writes |-> {}, valid |-> FALSE, printed |-> TRUE]
        ELSE [heap |-> after.heap, signals |-> after.signals,
              derefs |-> check_derefs(filter) \cup
                         (IF first \cup second = {} THEN {filter}
                          ELSE {filter, coefficients, input_signal, output_signal}),
              reads |-> {<<"coefficients", j>> : j \in UNION {taps(i) : i \in first \cup second}}
                        \cup UNION {{<<"input", i - j>> : j \in taps(i)} : i \in first \cup second},
              writes |-> first \cup second, valid |-> TRUE, printed |-> FALSE]

(***************************************************************************)
(* fir_filter.c: destroy_fir_filter                                        *)
(***************************************************************************)
\* a destroy that frees the struct and not the coefficients (a faulty variant)
destroy_fir_filter_struct_only(h, filter) ==
    IF filter # NULL THEN free(h, filter) ELSE h

destroy_fir_filter(h, filter) ==
    IF filter # NULL THEN free(free(h, h[filter].fields.coefficients), filter) ELSE h

\* the pointers destroy_fir_filter reads through: filter->coefficients is
\* read only when filter != NULL
destroy_derefs(filter) == IF filter # NULL THEN {filter} ELSE {}

(***************************************************************************)
(* The state: the heap, the caller's filter pointer, the caller's signal   *)
(* buffers, the filter as create_fir_filter built it, and the record of    *)
(* the call that was made last; and, for callers that run apply_fir_filter *)
(* in several threads, where each thread is in its call; and, for the      *)
(* command line interface, the filter file.                                *)
(***************************************************************************)
VARIABLES heap, filter, signals, constructed, call, threads, file

vars == <<heap, filter, signals, constructed, call, threads, file>>

\* what callers pass for <<cutoff_freq, kernel_length, sample_rate>>: the
\* parameters of the tests with every kernel length up to the bound, and
\* the ones with a zero or a negative value
ValidParameters == {<<1000, k, 8000>> : k \in 1..MaxKernel}
InvalidParameters ==
    {<<0, 3, 8000>>, <<0 - 1000, 3, 8000>>, <<1000, 0, 8000>>, <<1000, 0 - 1, 8000>>,
     <<1000, 3, 0>>, <<1000, 3, 0 - 8000>>, <<0, 0, 0>>}
\* a cutoff above half the sample rate: 2 * cutoff_freq / sample_rate > 1
AboveNyquistParameters == {<<5000, 3, 8000>>}
\* the parameters of the tests' coefficient vectors
TestVectorParameters == {<<1000, 11, 8000>>}
\* the samples of an input signal
Samples == {ToFloat(1), ToFloat(2)}
\* what an output buffer holds before the call
Stale == {ToFloat(0), ToFloat(7)}
\* the mallocs of a call that may return NULL
FailPoints(window, parameters) ==
    IF parameters \in InvalidParameters THEN {"none"}
    ELSE {"none", "struct", "coefficients"} \cup
         (IF is_window_kaiser(window) THEN {"factorial"} ELSE {})

NoSignals == [input |-> << >>, output |-> << >>]
NotConstructed == [fields |-> NoFields, data |-> << >>]
NoCall == [op |-> "none"]

\* the length of the buffers of a caller that passes signal_length
BufferLength(signal_length) == IF signal_length < 0 THEN 1 ELSE signal_length

\* a pointer to a filter that is there
Usable(h, f) == f # NULL /\ h[f].live

\* the threads of a caller that runs apply_fir_filter concurrently, and a
\* thread that is in no call
Threads == {"t1", "t2"}
NoThread == [pc |-> "idle", signal_length |-> 0, i |-> 0, j |-> 0,
             sig |-> NoSignals, before |-> NoSignals]
NoThreads == [t \in Threads |-> NoThread]

\* a filter file that is not there; the words of a file are its content in
\* units of four bytes
NoFile == [exists |-> FALSE, words |-> << >>]

Init ==
    /\ heap = [a \in Addr |-> NoBlock]
    /\ filter = NULL
    /\ signals = NoSignals
    /\ constructed = NotConstructed
    /\ call = NoCall
    /\ threads = NoThreads
    /\ file = NoFile

\* filter = create_fir_filter(...), into a pointer that owns no filter, by a
\* caller that holds no signals
Create ==
    /\ ~Usable(heap, filter)
    /\ call.op \in {"none", "destroy"}
    /\ \E type \in FilterType, window \in WindowType,
          parameters \in ValidParameters \cup AboveNyquistParameters
                         \cup TestVectorParameters \cup InvalidParameters :
         \E fail \in FailPoints(window, parameters) :
            \E r \in {create_fir_filter(AtCall(heap), type, window, parameters[1],
                                        parameters[2], parameters[3], fail)} :
                /\ heap' = r.heap
                /\ filter' = r.ret
                /\ constructed' =
                      IF Usable(r.heap, r.ret)
                      THEN [fields |-> r.heap[r.ret].fields,
                            data |-> r.heap[r.heap[r.ret].fields.coefficients].data]
                      ELSE NotConstructed
                /\ call' = [op |-> "create", type |-> type, window |-> window,
                            cutoff_freq |-> parameters[1], kernel_length |-> parameters[2],
                            sample_rate |-> parameters[3], failed |-> r.failed,
                            ret |-> r.ret, allocated |-> r.allocated,
                            written |-> r.written, printed |-> r.printed]
                /\ UNCHANGED <<signals, threads, file>>

\* the caller fills an input buffer and an output buffer of one length (or
\* passes NULL for either) and calls apply_fir_filter with the filter it
\* owns or with NULL
Apply ==
    /\ call.op # "apply"
    /\ \E f \in {NULL} \cup (IF Usable(heap, filter) THEN {filter} ELSE {}),
          input_signal \in {NULL, InAddr}, output_signal \in {NULL, OutAddr},
          signal_length \in (0 - 1)..MaxSignal :
         \E input \in [1..BufferLength(signal_length) -> Samples], stale \in Stale :
            /\ invalid_arguments(AtCall(heap), f, input_signal, output_signal, signal_length)
                  => \A k \in 1..BufferLength(signal_length) : input[k] = ToFloat(1)
            /\ (\/ invalid_arguments(AtCall(heap), f, input_signal, output_signal,
                                     signal_length)
                \/ signal_length = 0) => stale = ToFloat(7)
            /\ \E sig \in {[input |-> IF input_signal = NULL THEN << >> ELSE input,
                             output |-> IF output_signal = NULL THEN << >>
                                        ELSE [k \in 1..BufferLength(signal_length) |-> stale]]} :
                  \E r \in {apply_fir_filter(AtCall(heap), f, input_signal, output_signal,
                                             signal_length, sig)} :
                     /\ heap' = r.heap
                     /\ signals' = r.signals
                     /\ call' = [op |-> "apply", filter |-> f,
                                 input_signal |-> input_signal,
                                 output_signal |-> output_signal,
                                 signal_length |-> signal_length, before |-> sig,
                                 valid |-> r.valid, derefs |-> r.derefs,
                                 reads |-> r.reads, writes |-> r.writes,
                                 printed |-> r.printed]
                     /\ UNCHANGED <<filter, constructed, threads, file>>

\* the caller is done with the signals: free(output_signal)
ReleaseSignals ==
    /\ call.op = "apply"
    /\ signals' = NoSignals
    /\ call' = NoCall
    /\ UNCHANGED <<heap, filter, constructed, threads, file>>

\* destroy_fir_filter(NULL) or destroy_fir_filter(filter)
Destroy ==
    /\ call.op # "apply"
    /\ \E f \in {NULL} \cup (IF Usable(heap, filter) THEN {filter} ELSE {}) :
         /\ heap' = destroy_fir_filter(AtCall(heap), f)
         /\ constructed' = IF f = NULL THEN constructed ELSE NotConstructed
         /\ call' = [op |-> "destroy", filter |-> f,
                     coefficients |-> IF f = NULL THEN NULL
                                      ELSE heap[f].fields.coefficients,
                     derefs |-> destroy_derefs(f), before |-> Live(heap)]
         /\ UNCHANGED <<filter, signals, threads, file>>

\* the tests' free(filter->coefficients); filter->coefficients = nullptr;
ClearCoefficients ==
    /\ call.op # "apply"
    /\ Usable(heap, filter)
    /\ heap[filter].fields.coefficients # NULL
    /\ heap' = [free(AtCall(heap), heap[filter].fields.coefficients)
                   EXCEPT ![filter].fields.coefficients = NULL]
    /\ constructed' = NotConstructed
    /\ call' = NoCall
    /\ UNCHANGED <<filter, signals, threads, file>>

Next == Create \/ Apply \/ ReleaseSignals \/ Destroy \/ ClearCoefficients

Spec == Init /\ [][Next]_vars

(***************************************************************************)
(* Properties of apply_fir_filter and create_fir_filter.  A property about *)
(* a call is stated on the state the call leaves: call records the         *)
(* arguments and what the call did.                                        *)
(***************************************************************************)
\* the filter that the last call of apply_fir_filter was given
AppliedFields == heap[call.filter].fields
AppliedKernel == heap[AppliedFields.coefficients].data

\* kernel[0] * input[i] + ... + kernel[j] * input[i - j]
RECURSIVE reference_sum(_, _, _, _)
reference_sum(kernel, input, i, j) ==
    IF j < 0 THEN ToFloat(0)
    ELSE FAdd(reference_sum(kernel, input, i, j - 1),
              FMul(kernel[j + 1], input[i - j + 1]))

(* C1: after apply_fir_filter returns from a call with a filter that       *)
(* create_fir_filter built (N taps) and a signal of length L >= 0, every   *)
(* output[i], i in 0..L-1, is the sum over j = 0..min(i, N-1) of           *)
(* kernel[j] * input[i-j].                                                 *)
C1_ConvolutionIsReferenceSum ==
    (call.op = "apply" /\ call.valid) =>
        /\ Len(signals.output) = call.signal_length
        /\ \A i \in 0..(call.signal_length - 1) :
              signals.output[i + 1] =
                  reference_sum(AppliedKernel, call.before.input, i,
                                Min(i, AppliedFields.kernel_length - 1))

\* a call with L > N - 1, N = 3: both loops ran, and the output is a number
C1_BothLoopsRan ==
    /\ call.op = "apply" /\ call.valid
    /\ AppliedFields.kernel_length = 3 /\ call.signal_length = 3
    /\ ~signals.output[3].nan /\ signals.output[3].v # 0
    /\ signals.output[3] # call.before.output[3]

(* C2: when cutoff_freq <= 0 or sample_rate <= 0 or kernel_length <= 0,    *)
(* create_fir_filter returns NULL, has allocated nothing, and leaves no    *)
(* block live.                                                             *)
C2_InvalidParametersFail ==
    (/\ call.op = "create"
     /\ (call.cutoff_freq <= 0 \/ call.sample_rate <= 0 \/ call.kernel_length <= 0)) =>
        /\ call.ret = NULL
        /\ filter = NULL
        /\ call.allocated = {}
        /\ Live(heap) = {}

\* a call whose only invalid parameter is the kernel length
C2_InvalidLength ==
    /\ call.op = "create" /\ call.failed = "parameters"
    /\ call.cutoff_freq > 0 /\ call.sample_rate > 0 /\ call.kernel_length <= 0
    /\ call.ret = NULL

(* C3: whenever create_fir_filter returns a pointer that is not NULL, the  *)
(* pointer is to a live struct whose coefficients pointer is not NULL and  *)
(* is to a live array, and whose kernel_length is odd and >= 1.            *)
C3_ReturnedFilterIsLive ==
    (call.op = "create" /\ call.ret # NULL) =>
        /\ heap[call.ret].live
        /\ heap[call.ret].fields.coefficients # NULL
        /\ heap[heap[call.ret].fields.coefficients].live
        /\ heap[call.ret].fields.kernel_length % 2 = 1
        /\ heap[call.ret].fields.kernel_length >= 1

(* C4: when the allocation of the Kaiser factorial table fails,            *)
(* create_fir_filter returns NULL, the struct and the coefficients have    *)
(* been freed exactly once each, and no pointer to a freed block is        *)
(* returned.                                                               *)
C4_FactorialFailureReturnsNull ==
    (call.op = "create" /\ call.failed = "factorial") =>
        /\ call.ret = NULL
        /\ \A a \in call.allocated : ~heap[a].live /\ heap[a].frees = 1
        /\ (call.ret # NULL => heap[call.ret].live)

(* C5: when the allocation of the struct or of the coefficient array       *)
(* fails, create_fir_filter returns NULL and every block the call          *)
(* allocated has been freed (once): none is live.                          *)
C5_AllocationFailureFreesAll ==
    (call.op = "create" /\ call.failed \in {"struct", "coefficients"}) =>
        /\ call.ret = NULL
        /\ filter = NULL
        /\ call.allocated \cap Live(heap) = {}
        /\ \A a \in call.allocated : heap[a].frees = 1
        /\ Live(heap) = {}

\* the coefficient allocation failed after the struct was allocated
C5_StructWasAllocated ==
    /\ call.op = "create" /\ call.failed = "coefficients"
    /\ call.allocated # {}
    /\ \A a \in call.allocated : ~heap[a].live

(* C6: a filter that create_fir_filter built for a requested kernel_length *)
(* k > 0 stores k + 1 when k is even and k when k is odd; its coefficient  *)
(* array has as many elements as the stored kernel_length, each of them    *)
(* written by the call; type, window, cutoff_freq and sample_rate are      *)
(* stored as passed.                                                       *)
C6_KernelLengthCoerced ==
    (call.op = "create" /\ call.failed = "none") =>
        /\ call.kernel_length % 2 = 0 =>
              heap[call.ret].fields.kernel_length = call.kernel_length + 1
        /\ call.kernel_length % 2 = 1 =>
              heap[call.ret].fields.kernel_length = call.kernel_length
        /\ Len(heap[heap[call.ret].fields.coefficients].data) =
              heap[call.ret].fields.kernel_length
        /\ call.written = 0..(heap[call.ret].fields.kernel_length - 1)
        /\ \A i \in 1..heap[call.ret].fields.kernel_length :
              heap[heap[call.ret].fields.coefficients].data[i] # Indeterminate
        /\ heap[call.ret].fields.type = call.type
        /\ heap[call.ret].fields.window = call.window
        /\ heap[call.ret].fields.cutoff_freq = call.cutoff_freq
        /\ heap[call.ret].fields.sample_rate = call.sample_rate

\* an even request: 2 became 3
C6_EvenRequest ==
    /\ call.op = "create" /\ call.failed = "none"
    /\ call.kernel_length = 2
    /\ heap[call.ret].fields.kernel_length = 3
    /\ Len(heap[heap[call.ret].fields.coefficients].data) = 3

(* C7: when filter is NULL, or filter->coefficients is NULL, or the input  *)
(* is NULL, or the output is NULL, or signal_length < 0, apply_fir_filter  *)
(* returns having written no element of the output (or of anything else)   *)
(* and having read through no NULL pointer.                                *)
C7_InvalidArgumentsNoAccess ==
    (/\ call.op = "apply"
     /\ \/ call.filter = NULL
        \/ AppliedFields.coefficients = NULL
        \/ call.input_signal = NULL
        \/ call.output_signal = NULL
        \/ call.signal_length < 0) =>
        /\ call.writes = {}
        /\ call.reads = {}
        /\ signals = call.before
        /\ NULL \notin call.derefs

\* a call with a filter whose coefficients pointer is NULL, on buffers that
\* are there: the filter was read, nothing else
C7_NullCoefficients ==
    /\ call.op = "apply" /\ call.filter # NULL
    /\ AppliedFields.coefficients = NULL
    /\ call.input_signal # NULL /\ call.output_signal # NULL
    /\ call.signal_length > 0
    /\ call.derefs = {call.filter}

(* C8: apply_fir_filter does not change its input: after every call each   *)
(* element of the input buffer is what it was before the call.             *)
C8_InputUnchanged ==
    call.op = "apply" => signals.input = call.before.input

\* a call that wrote its output from an input of two or more samples
C8_OutputWritten ==
    /\ call.op = "apply" /\ call.valid
    /\ Len(call.before.input) >= 2
    /\ call.writes = 0..(Len(call.before.input) - 1)
    /\ signals.output # call.before.output

(* C9: from the return of create_fir_filter with a filter to the call of   *)
(* destroy_fir_filter, whatever calls of apply_fir_filter are made, the    *)
(* filter is there and its type, window, cutoff_freq, kernel_length,       *)
(* sample_rate and coefficients are what create_fir_filter made them.      *)
C9_FilterUnchangedByApply ==
    constructed # NotConstructed =>
        /\ Usable(heap, filter)
        /\ heap[filter].fields = constructed.fields
        /\ heap[heap[filter].fields.coefficients].live
        /\ heap[heap[filter].fields.coefficients].data = constructed.data

\* a call of apply_fir_filter on the constructed filter that ran its loops
C9_AppliedConstructed ==
    /\ call.op = "apply" /\ call.valid /\ call.filter = filter
    /\ constructed # NotConstructed
    /\ call.writes # {}
    /\ signals.output # call.before.output

(* C10: a call of apply_fir_filter with a filter that create_fir_filter    *)
(* built (N taps) and L >= 0 writes the output indices 0..L-1 and no       *)
(* other, and reads coefficients only at indices in 0..N-1 and input only  *)
(* at indices in 0..L-1.                                                   *)
C10_AccessesInBounds ==
    (call.op = "apply" /\ call.valid) =>
        /\ call.writes = 0..(call.signal_length - 1)
        /\ \A r \in call.reads :
              /\ r[1] = "coefficients" => r[2] \in 0..(AppliedFields.kernel_length - 1)
              /\ r[1] = "input" => r[2] \in 0..(call.signal_length - 1)

\* a call with L < N - 1: only the first loop ran, on a kernel longer than
\* the signal
C10_SignalShorterThanKernel ==
    /\ call.op = "apply" /\ call.valid
    /\ AppliedFields.kernel_length = 5 /\ call.signal_length = 2
    /\ call.writes = {0, 1}
    /\ <<"coefficients", 1>> \in call.reads


(***************************************************************************)
(* Properties of the kernels.  Two floats are equal as == of C finds them: *)
(* a NaN equals nothing, itself included.                                  *)
(***************************************************************************)
\* a == b for floats
float_equal(a, b) == ~a.nan /\ ~b.nan /\ a.v = b.v

\* no element of the kernel is NaN
defined_kernel(kernel) == \A i \in 1..Len(kernel) : ~kernel[i].nan

\* the kernel of the filter that the last call of create_fir_filter returned
CreatedFields == heap[call.ret].fields
CreatedKernel == heap[CreatedFields.coefficients].data

\* the kernel in what a call of create_fir_filter returned
kernel_of(r) == r.heap[r.heap[r.ret].fields.coefficients].data

\* the kernel create_fir_filter builds for the parameters of the last call,
\* with another filter type, when no allocation fails
kernel_for(type) ==
    kernel_of(create_fir_filter([a \in Addr |-> NoBlock], type, call.window,
                                call.cutoff_freq, call.kernel_length,
                                call.sample_rate, "none"))

\* highpass is lowpass with the sign of every element changed, and 1 added
\* at center only
inversion_of(highpass, lowpass, center) ==
    /\ Len(highpass) = Len(lowpass)
    /\ \A i \in 0..(Len(lowpass) - 1) :
          float_equal(highpass[i + 1],
                      IF i = center THEN FSub(ToFloat(1), lowpass[i + 1])
                      ELSE FSub(ToFloat(0), lowpass[i + 1]))

(* C11: the kernel of a high-pass filter that create_fir_filter built is   *)
(* the spectral inversion of the kernel it builds as low-pass for the same *)
(* window, cutoff_freq, kernel_length and sample_rate: highpass[i] =       *)
(* -lowpass[i] for every i but the center (N-1)/2, and highpass[center] =  *)
(* 1 - lowpass[center].                                                    *)
C11_HighPassIsInversion ==
    (call.op = "create" /\ call.failed = "none" /\ call.type = "HIGH_PASS") =>
        inversion_of(CreatedKernel, kernel_for("LOW_PASS"),
                     (CreatedFields.kernel_length - 1) \div 2)

\* C11 holds of the kernels without a NaN: the sign of every element is
\* changed and 1 is added at the center only
C11_InversionOfDefinedKernel ==
    (/\ call.op = "create" /\ call.failed = "none" /\ call.type = "HIGH_PASS"
     /\ defined_kernel(CreatedKernel)) =>
        inversion_of(CreatedKernel, kernel_for("LOW_PASS"),
                     (CreatedFields.kernel_length - 1) \div 2)

\* a high-pass kernel of three taps with a rectangular window: the center
\* is 1 - 0.25, the taps around it are negative
C11_HighPassThreeTaps ==
    /\ call.op = "create" /\ call.failed = "none" /\ call.type = "HIGH_PASS"
    /\ call.window = "RECT" /\ CreatedFields.kernel_length = 3
    /\ CreatedKernel[2] = F(750000)
    /\ ~CreatedKernel[1].nan /\ CreatedKernel[1].v < 0
    /\ ~CreatedKernel[3].nan /\ CreatedKernel[3].v < 0

(* C12: the kernel of a low-pass filter that create_fir_filter built, of   *)
(* N taps, is symmetric: kernel[i] = kernel[N-1-i] for every i in 0..N-1.  *)
C12_LowPassSymmetric ==
    (call.op = "create" /\ call.failed = "none" /\ call.type = "LOW_PASS") =>
        \A i \in 0..(CreatedFields.kernel_length - 1) :
            float_equal(CreatedKernel[i + 1],
                        CreatedKernel[CreatedFields.kernel_length - i])

\* C12 holds of the kernels without a NaN
C12_DefinedKernelSymmetric ==
    (/\ call.op = "create" /\ call.failed = "none" /\ call.type = "LOW_PASS"
     /\ defined_kernel(CreatedKernel)) =>
        \A i \in 0..(CreatedFields.kernel_length - 1) :
            float_equal(CreatedKernel[i + 1],
                        CreatedKernel[CreatedFields.kernel_length - i])

\* a low-pass kernel of five taps whose outer taps are numbers, not zero,
\* and differ from the taps next to them
C12_FiveTaps ==
    /\ call.op = "create" /\ call.failed = "none" /\ call.type = "LOW_PASS"
    /\ CreatedFields.kernel_length = 5
    /\ ~CreatedKernel[1].nan /\ CreatedKernel[1].v # 0
    /\ CreatedKernel[1] = CreatedKernel[5]
    /\ CreatedKernel[2] = CreatedKernel[4]
    /\ CreatedKernel[1] # CreatedKernel[2]


(***************************************************************************)
(* Properties of destroy_fir_filter.  frees counts the calls of free on a  *)
(* block within the call; call.before is the set of blocks that were live  *)
(* when the call was made.                                                 *)
(***************************************************************************)
\* the call released exactly the blocks of released, once each, and no other
released_exactly(released) ==
    /\ \A a \in Addr : heap[a].frees = (IF a \in released THEN 1 ELSE 0)
    /\ Live(heap) = call.before \ released

(* C13: destroy_fir_filter(NULL) releases nothing and reads through no     *)
(* pointer; on a constructed filter it releases the coefficient array and  *)
(* the struct, exactly once each; on a filter whose coefficients pointer   *)
(* is NULL it releases the struct only.                                    *)
C13_DestroyReleases ==
    call.op = "destroy" =>
        /\ call.filter = NULL =>
              /\ released_exactly({})
              /\ call.derefs = {}
        /\ (call.filter # NULL /\ call.coefficients # NULL) =>
              /\ call.filter # call.coefficients
              /\ {call.filter, call.coefficients} \subseteq call.before
              /\ released_exactly({call.filter, call.coefficients})
        /\ (call.filter # NULL /\ call.coefficients = NULL) =>
              /\ call.filter \in call.before
              /\ released_exactly({call.filter})

\* a constructed filter was destroyed: two blocks were live, none is
C13_ConstructedDestroyed ==
    /\ call.op = "destroy" /\ call.filter # NULL /\ call.coefficients # NULL
    /\ call.before = {call.filter, call.coefficients}
    /\ Live(heap) = {}
    /\ heap[call.filter].frees = 1 /\ heap[call.coefficients].frees = 1


(***************************************************************************)
(* Output of the core.  call.printed: the call wrote to stderr.            *)
(***************************************************************************)
(* C14: no call of create_fir_filter or apply_fir_filter prints anything,  *)
(* on any path, the invalid-parameter, invalid-argument and allocation-    *)
(* failure paths included (destroy_fir_filter has no statement that        *)
(* prints).                                                                *)
C14_CoreNeverPrints ==
    call.op \in {"create", "apply"} => ~call.printed


(***************************************************************************)
(* Concurrent callers: the threads of Threads each make one call of        *)
(* apply_fir_filter on the same constructed filter, each with an input and *)
(* an output buffer of its own.  A step is one statement of                *)
(* apply_fir_filter in one thread; the statements of the threads           *)
(* interleave in every order.                                              *)
(***************************************************************************)
\* largest signal_length a thread passes
MaxThreadSignal == 3

\* the filters the threads share, and the signals they pass
SharedWindows == {"RECT", "HAMMING"}
ThreadInputs(signal_length) ==
    {[k \in 1..signal_length |-> ToFloat(1)],
     [k \in 1..signal_length |-> ToFloat(1 + (k % 2))]}
ThreadOutput(signal_length) == [k \in 1..signal_length |-> ToFloat(7)]

\* the array at an address, for a thread whose buffers are sig
array_at(h, sig, array) ==
    IF array \in Addr THEN h[array].data
    ELSE IF array = InAddr THEN sig.input
    ELSE IF array = OutAddr THEN sig.output
    ELSE << >>

\* a store that keeps the running sum in the filter's own storage, which the
\* threads share (a faulty variant)
thread_store_in_filter(h, f, th, value) ==
    store_samples(h, th.sig, h[f].fields.coefficients, {th.i}, [x \in {th.i} |-> value])

\* output_signal[i] = value, in the thread th
thread_store(h, f, th, value) ==
    store_samples(h, th.sig,
                  written_array(h[f].fields.coefficients, InAddr, OutAddr),
                  {th.i}, [x \in {th.i} |-> value])

\* output_signal[i] + coefficients[j] * input_signal[i - j], in the thread th
thread_sum(h, f, th) ==
    FAdd(load(array_at(h, th.sig,
                       written_array(h[f].fields.coefficients, InAddr, OutAddr)), th.i),
         FMul(load(h[h[f].fields.coefficients].data, th.j),
              load(th.sig.input, th.i - th.j)))

ConcurrentInit ==
    /\ \E type \in FilterType, window \in SharedWindows, parameters \in ValidParameters :
          \E r \in {create_fir_filter([a \in Addr |-> NoBlock], type, window,
                                      parameters[1], parameters[2], parameters[3],
                                      "none")} :
             /\ heap = r.heap
             /\ filter = r.ret
             /\ constructed = [fields |-> r.heap[r.ret].fields, data |-> kernel_of(r)]
    /\ signals = NoSignals
    /\ call = NoCall
    /\ threads = NoThreads
    /\ file = NoFile

\* the thread calls apply_fir_filter(filter, input_signal, output_signal, L)
ThreadCall(t) ==
    /\ threads[t].pc = "idle"
    /\ \E signal_length \in 0..MaxThreadSignal :
          \E input \in ThreadInputs(signal_length) :
             \E sig \in {[input |-> input, output |-> ThreadOutput(signal_length)]} :
                threads' = [threads EXCEPT ![t] =
                               [pc |-> "check", signal_length |-> signal_length,
                                i |-> 0, j |-> 0, sig |-> sig, before |-> sig]]
    /\ UNCHANGED <<heap, filter, signals, constructed, call, file>>

\* the check of the arguments
ThreadCheck(t) ==
    /\ threads[t].pc = "check"
    /\ threads' = [threads EXCEPT ![t].pc =
                      IF invalid_arguments(heap, filter, InAddr, OutAddr,
                                           threads[t].signal_length)
                      THEN "done" ELSE "first", ![t].i = 0]
    /\ UNCHANGED <<heap, filter, signals, constructed, call, file>>

\* for (i = 0; i < MIN(kernel_length - 1, signal_length); ++i): the test,
\* and the initialisation of the second loop when it fails
FirstLoopTest(t) ==
    /\ threads[t].pc = "first"
    /\ threads' =
          IF threads[t].i \in first_loop(heap[filter].fields.kernel_length,
                                         threads[t].signal_length)
          THEN [threads EXCEPT ![t].pc = "first_zero"]
          ELSE [threads EXCEPT ![t].pc = "second",
                               ![t].i = heap[filter].fields.kernel_length - 1]
    /\ UNCHANGED <<heap, filter, signals, constructed, call, file>>

\* output_signal[i] = 0; j = 0
FirstLoopZero(t) ==
    /\ threads[t].pc = "first_zero"
    /\ \E r \in {thread_store(heap, filter, threads[t], ToFloat(0))} :
          /\ heap' = r.heap
          /\ threads' = [threads EXCEPT ![t].sig = r.signals, ![t].j = 0,
                                        ![t].pc = "first_add"]
    /\ UNCHANGED <<filter, signals, constructed, call, file>>

\* j < i + 1: output_signal[i] += coefficients[j] * input_signal[i - j]; ++j
\* otherwise ++i
FirstLoopAdd(t) ==
    /\ threads[t].pc = "first_add"
    /\ IF threads[t].j \in first_taps(threads[t].i)
       THEN \E r \in {thread_store(heap, filter, threads[t],
                                   thread_sum(heap, filter, threads[t]))} :
               /\ heap' = r.heap
               /\ threads' = [threads EXCEPT ![t].sig = r.signals,
                                             ![t].j = threads[t].j + 1]
       ELSE /\ heap' = heap
            /\ threads' = [threads EXCEPT ![t].i = threads[t].i + 1, ![t].pc = "first"]
    /\ UNCHANGED <<filter, signals, constructed, call, file>>

\* for (i = kernel_length - 1; i < signal_length; ++i): the test, and the
\* return when it fails
SecondLoopTest(t) ==
    /\ threads[t].pc = "second"
    /\ threads' = [threads EXCEPT ![t].pc =
                      IF threads[t].i \in second_loop(heap[filter].fields.kernel_length,
                                                      threads[t].signal_length)
                      THEN "second_zero" ELSE "done"]
    /\ UNCHANGED <<heap, filter, signals, constructed, call, file>>

\* output_signal[i] = 0; j = 0
SecondLoopZero(t) ==
    /\ threads[t].pc = "second_zero"
    /\ \E r \in {thread_store(heap, filter, threads[t], ToFloat(0))} :
          /\ heap' = r.heap
          /\ threads' = [threads EXCEPT ![t].sig = r.signals, ![t].j = 0,
                                        ![t].pc = "second_add"]
    /\ UNCHANGED <<filter, signals, constructed, call, file>>

\* j < kernel_length: output_signal[i] += coefficients[j] * input_signal[i - j];
\* ++j otherwise ++i
SecondLoopAdd(t) ==
    /\ threads[t].pc = "second_add"
    /\ IF threads[t].j \in second_taps(heap[filter].fields.kernel_length)
       THEN \E r \in {thread_store(heap, filter, threads[t],
                                   thread_sum(heap, filter, threads[t]))} :
               /\ heap' = r.heap
               /\ threads' = [threads EXCEPT ![t].sig = r.signals,
                                             ![t].j = threads[t].j + 1]
       ELSE /\ heap' = heap
            /\ threads' = [threads EXCEPT ![t].i = threads[t].i + 1, ![t].pc = "second"]
    /\ UNCHANGED <<filter, signals, constructed, call, file>>

ConcurrentNext ==
    \E t \in Threads :
        \/ ThreadCall(t)
        \/ ThreadCheck(t)
        \/ FirstLoopTest(t)
        \/ FirstLoopZero(t)
        \/ FirstLoopAdd(t)
        \/ SecondLoopTest(t)
        \/ SecondLoopZero(t)
        \/ SecondLoopAdd(t)

SpecConcurrent == ConcurrentInit /\ [][ConcurrentNext]_vars

\* the output of the call of thread th when it runs alone on the filter as
\* create_fir_filter built it
output_alone(h, f, th) ==
    apply_fir_filter(h, f, InAddr, OutAddr, th.signal_length, th.before).signals.output

(* C15: when the threads run apply_fir_filter concurrently on one          *)
(* constructed filter, each with an output buffer of its own, then in      *)
(* every interleaving the fields and the coefficients of the filter stay   *)
(* what create_fir_filter made them, each thread's input stays what it     *)
(* was, and a thread that has returned holds the output its call gives     *)
(* when it runs alone.                                                     *)
C15_ConcurrentApplyIsolated ==
    /\ Usable(heap, filter)
    /\ heap[filter].fields = constructed.fields
    /\ heap[heap[filter].fields.coefficients].data = constructed.data
    /\ \A t \in Threads :
          /\ threads[t].sig.input = threads[t].before.input
          /\ threads[t].pc = "done" =>
                threads[t].sig.output = output_alone(heap, filter, threads[t])

\* both threads have returned from calls that ran both loops, on different
\* inputs, while the other thread was in its call
C15_BothThreadsDone ==
    /\ threads["t1"].pc = "done" /\ threads["t2"].pc = "done"
    /\ threads["t1"].signal_length = 3 /\ threads["t2"].signal_length = 3
    /\ heap[filter].fields.kernel_length = 3
    /\ threads["t1"].before.input # threads["t2"].before.input
    /\ threads["t1"].sig.output # threads["t2"].sig.output
    /\ threads["t1"].sig.output # threads["t1"].before.output


(***************************************************************************)
(* fir_filter_cli.c: the filter file.  The file is a sequence of words of  *)
(* four bytes: fwrite copies the bytes of an object to the file and fread  *)
(* copies them back, so a word is the bit pattern of an enum, an int or a  *)
(* float.                                                                  *)
(***************************************************************************)
\* the enumerators in the order of their declaration: the first is 0
FilterTypeOrder == <<"LOW_PASS", "HIGH_PASS">>
WindowTypeOrder ==
    <<"RECT", "HANNING", "HAMMING", "BLACKMAN", "KAISER_B6", "KAISER_B8", "KAISER_B10">>
enum_value(order, name) == (CHOOSE k \in 1..Len(order) : order[k] = name) - 1
enum_name(order, value) ==
    IF value \in 0..(Len(order) - 1) THEN order[value + 1] ELSE "OUT_OF_RANGE"

\* the word that stands for the bits of a float, and the float of a word; a
\* cutoff_freq or sample_rate, a whole number of Hz, is its own word
NaNBits == 511 * 2 ^ 22
float_bits(x) == IF x.nan THEN NaNBits ELSE x.v
bits_float(w) == IF w = NaNBits THEN NaN ELSE F(w)

\* a save that writes one coefficient less (a faulty variant)
saved_coefficients_short(data, kernel_length) ==
    [i \in 1..(kernel_length - 1) |-> float_bits(load(data, i - 1))]

\* fwrite(filter->coefficients, sizeof(float), filter->kernel_length, file)
saved_coefficients(data, kernel_length) ==
    [i \in 1..kernel_length |-> float_bits(load(data, i - 1))]

\* the five fwrite calls of the fields, in their order
saved_fields(fields) ==
    <<enum_value(FilterTypeOrder, fields.type), enum_value(WindowTypeOrder, fields.window),
      fields.cutoff_freq, fields.kernel_length, fields.sample_rate>>

\* save_filter_to_file(filename, filter): the file it leaves
save_filter_to_file(h, f) ==
    [exists |-> TRUE,
     words |-> saved_fields(h[f].fields) \o
               saved_coefficients(h[h[f].fields.coefficients].data,
                                  h[f].fields.kernel_length)]

\* what fread leaves in an object when it reads word k: the word, or what
\* the object held when the file ends before it
fread_word(words, k, held) == IF k \in 1..Len(words) THEN words[k] ELSE held

\* the five fread calls of the fields, in their order, into a struct that
\* malloc returned
loaded_fields(words) ==
    [type |-> enum_name(FilterTypeOrder, fread_word(words, 1, 0 - 1)),
     window |-> enum_name(WindowTypeOrder, fread_word(words, 2, 0 - 1)),
     cutoff_freq |-> fread_word(words, 3, 0),
     kernel_length |-> fread_word(words, 4, 0),
     sample_rate |-> fread_word(words, 5, 0),
     coefficients |-> NULL]

\* fread(filter->coefficients, sizeof(float), filter->kernel_length, file)
loaded_coefficients(words, data) ==
    [i \in 1..Len(data) |->
        IF 5 + i \in 1..Len(words) THEN bits_float(words[5 + i]) ELSE data[i]]

\* the heap after the fread into the coefficient array
read_coefficients(h, f, words) ==
    [h EXCEPT ![h[f].fields.coefficients].data = loaded_coefficients(words, @)]

\* the struct with the fields read from the file
loaded_struct(h, f, words) ==
    [alloc_struct(h, f) EXCEPT ![f].fields = loaded_fields(words)]

\* load_filter_from_file from the malloc of the coefficients on; a negative
\* kernel_length converts to a size no malloc grants, and malloc(0), for a
\* kernel_length of 0, returns NULL or a pointer to no element as the
\* library chooses (zero_is_null)
load_coefficients(h, f, words, zero_is_null) ==
    IF h[f].fields.kernel_length < 0 \/ (h[f].fields.kernel_length = 0 /\ zero_is_null)
    THEN [heap |-> free(h, f), ret |-> NULL, exit |-> TRUE]
    ELSE [heap |-> read_coefficients(new_coefficients(h, f, malloc(h)), f, words),
          ret |-> f, exit |-> FALSE]

\* load_filter_from_file(filename): exit is the call of exit(EXIT_FAILURE)
load_filter_from_file(h, f, zero_is_null) ==
    IF ~f.exists THEN [heap |-> h, ret |-> NULL, exit |-> TRUE]
    ELSE load_coefficients(loaded_struct(h, malloc(h), f.words), malloc(h), f.words,
                           zero_is_null)

(***************************************************************************)
(* fir_filter_cli.c: the commands.  Each run of the program starts with an *)
(* empty heap; what one run leaves to the next is the filter file.         *)
(***************************************************************************)
\* largest number of samples in an input file
MaxFileSignal == 3

EmptyHeap == [a \in Addr |-> NoBlock]

\* the signals read_signal_from_file returns
FileSignals(signal_length) == [1..signal_length -> Samples]

\* filter files that another program wrote: the loader takes any content.
\* The kernel_length of the record is negative, zero, even or odd, and the
\* file ends before, at or after the last coefficient
ForeignRecords ==
    {[exists |-> TRUE,
      words |-> <<0, 0, 1000, kernel_length, 8000>> \o
                [i \in 1..count |-> float_bits(ToFloat(1))]] :
        kernel_length \in (0 - 1)..3, count \in {0, 2, 4}}

CliInit ==
    /\ heap = EmptyHeap
    /\ filter = NULL
    /\ signals = NoSignals
    /\ constructed = NotConstructed
    /\ call = NoCall
    /\ threads = NoThreads
    /\ file = NoFile

\* handle_create_fir_filter: create_fir_filter, exit when it returns NULL,
\* else save_filter_to_file and destroy_fir_filter.  fopen(filename, "wb")
\* truncates a file that is there, so a run leaves what it leaves when
\* there is no file: the runs are taken from there
HandleCreate ==
    /\ call.op # "load"
    /\ ~file.exists
    /\ \E type \in FilterType, window \in WindowType,
          parameters \in ValidParameters \cup InvalidParameters :
         \E fail \in FailPoints(window, parameters) \ {"factorial"} :
            \E r \in {create_fir_filter(EmptyHeap, type, window, parameters[1],
                                        parameters[2], parameters[3], fail)} :
               IF r.ret = NULL
               THEN /\ call' = [op |-> "handle_create", exit |-> TRUE]
                    /\ UNCHANGED <<file, constructed>>
               ELSE /\ file' = save_filter_to_file(r.heap, r.ret)
                    /\ constructed' = [fields |-> r.heap[r.ret].fields,
                                       data |-> kernel_of(r)]
                    /\ call' = [op |-> "handle_create", exit |-> FALSE]
    /\ heap' = EmptyHeap
    /\ filter' = NULL
    /\ signals' = NoSignals
    /\ UNCHANGED threads

\* handle_apply_fir_filter up to the return of load_filter_from_file: an
\* input file without samples leaves input_signal NULL, and malloc(0) for
\* the output returns NULL or a pointer
LoadFilter ==
    /\ call.op # "load"
    /\ \E signal_length \in 0..MaxFileSignal, output_signal \in {NULL, OutAddr},
          zero_is_null \in BOOLEAN :
         /\ output_signal = NULL => signal_length = 0
         /\ zero_is_null =>
               (output_signal # NULL /\ file.exists /\ Len(file.words) >= 4
                   /\ file.words[4] = 0)
         /\ \E input \in FileSignals(signal_length) :
              \E r \in {IF output_signal = NULL
                        THEN [heap |-> EmptyHeap, ret |-> NULL, exit |-> TRUE]
                        ELSE load_filter_from_file(EmptyHeap, file, zero_is_null)} :
                 /\ heap' = r.heap
                 /\ filter' = r.ret
                 /\ signals' = IF r.exit THEN NoSignals
                               ELSE [input |-> input,
                                     output |-> [k \in 1..signal_length |-> Indeterminate]]
                 /\ call' = [op |-> "load", exit |-> r.exit,
                             signal_length |-> signal_length,
                             input_signal |-> IF signal_length = 0 THEN NULL ELSE InAddr,
                             output_signal |-> output_signal]
    /\ UNCHANGED <<constructed, threads, file>>

\* the rest of handle_apply_fir_filter: apply_fir_filter, the output file,
\* the frees and destroy_fir_filter; or the end of a run that called exit
ApplyLoaded ==
    /\ call.op = "load"
    /\ \E r \in {IF call.exit
                 THEN [signals |-> NoSignals, valid |-> FALSE, writes |-> {}, reads |-> {}]
                 ELSE apply_fir_filter(heap, filter, call.input_signal,
                                       call.output_signal, call.signal_length, signals)} :
          /\ signals' = r.signals
          /\ call' = [op |-> "handle_apply", exit |-> call.exit, valid |-> r.valid,
                      writes |-> r.writes, reads |-> r.reads,
                      signal_length |-> call.signal_length,
                      kernel_length |-> IF call.exit THEN 0
                                        ELSE heap[filter].fields.kernel_length,
                      coefficients |-> IF call.exit THEN 0
                                       ELSE Len(heap[heap[filter].fields.coefficients].data)]
    /\ heap' = EmptyHeap
    /\ filter' = NULL
    /\ UNCHANGED <<constructed, threads, file>>

\* handle_destroy_fir_filter: remove(filter_file)
HandleDestroy ==
    /\ call.op # "load"
    /\ file' = NoFile
    /\ constructed' = NotConstructed
    /\ call' = [op |-> "handle_destroy", removed |-> file.exists]
    /\ heap' = EmptyHeap
    /\ filter' = NULL
    /\ signals' = NoSignals
    /\ UNCHANGED threads

\* another program writes the filter file
WriteFile ==
    /\ call.op # "load"
    /\ ~file.exists
    /\ \E record \in ForeignRecords : file' = record
    /\ constructed' = NotConstructed
    /\ call' = [op |-> "write_file"]
    /\ heap' = EmptyHeap
    /\ filter' = NULL
    /\ signals' = NoSignals
    /\ UNCHANGED threads

CliNext == HandleCreate \/ LoadFilter \/ ApplyLoaded \/ HandleDestroy \/ WriteFile

SpecCli == CliInit /\ [][CliNext]_vars

\* the fields of a filter but for its coefficients pointer
plain_fields(fields) == [fields EXCEPT !.coefficients = NULL]

(* C16: a filter file that save_filter_to_file wrote holds, in this order, *)
(* the filter type, the window type, the cutoff frequency, the kernel      *)
(* length, the sample rate and then kernel_length coefficients; the filter *)
(* load_filter_from_file returns from it has the fields and the            *)
(* coefficients of the filter that was saved.                              *)
C16_SaveLoadRoundTrip ==
    /\ (file.exists /\ constructed # NotConstructed) =>
          /\ Len(file.words) = 5 + constructed.fields.kernel_length
          /\ file.words[1] = enum_value(FilterTypeOrder, constructed.fields.type)
          /\ file.words[2] = enum_value(WindowTypeOrder, constructed.fields.window)
          /\ file.words[3] = constructed.fields.cutoff_freq
          /\ file.words[4] = constructed.fields.kernel_length
          /\ file.words[5] = constructed.fields.sample_rate
          /\ \A i \in 1..constructed.fields.kernel_length :
                file.words[5 + i] = float_bits(constructed.data[i])
    /\ (call.op = "load" /\ ~call.exit /\ constructed # NotConstructed) =>
          /\ Usable(heap, filter)
          /\ plain_fields(heap[filter].fields) = plain_fields(constructed.fields)
          /\ heap[filter].fields.coefficients # NULL
          /\ heap[heap[filter].fields.coefficients].live
          /\ heap[heap[filter].fields.coefficients].data = constructed.data

\* a high-pass Kaiser filter of five taps was saved and loaded again
C16_LoadedFiveTaps ==
    /\ call.op = "load" /\ ~call.exit
    /\ heap[filter].fields.type = "HIGH_PASS"
    /\ heap[filter].fields.window = "KAISER_B8"
    /\ heap[filter].fields.kernel_length = 5
    /\ Len(heap[heap[filter].fields.coefficients].data) = 5
    /\ Len(file.words) = 10
    /\ heap[heap[filter].fields.coefficients].data[3] = bits_float(file.words[8])
    /\ ~heap[heap[filter].fields.coefficients].data[1].nan
    /\ heap[heap[filter].fields.coefficients].data[1].v # 0


(***************************************************************************)
(* Properties of the construction.                                         *)
(***************************************************************************)
(* C17: a call of create_fir_filter with cutoff_freq > 0, sample_rate > 0  *)
(* and kernel_length > 0 in which no allocation fails returns a filter,    *)
(* whatever 2 * cutoff_freq / sample_rate is (above 1 included), and the   *)
(* filter has a kernel of the coerced length, every element written.       *)
C17_NoCutoffRangeCheck ==
    (/\ call.op = "create"
     /\ call.cutoff_freq > 0 /\ call.sample_rate > 0 /\ call.kernel_length > 0
     /\ call.failed \notin {"struct", "coefficients", "factorial"}) =>
        /\ call.failed = "none"
        /\ call.ret # NULL
        /\ Usable(heap, call.ret)
        /\ CreatedFields.cutoff_freq = call.cutoff_freq
        /\ CreatedFields.sample_rate = call.sample_rate
        /\ CreatedFields.kernel_length =
              (IF call.kernel_length % 2 = 0 THEN call.kernel_length + 1
               ELSE call.kernel_length)
        /\ CreatedFields.coefficients # NULL
        /\ heap[CreatedFields.coefficients].live
        /\ Len(CreatedKernel) = CreatedFields.kernel_length
        /\ \A i \in 1..Len(CreatedKernel) : CreatedKernel[i] # Indeterminate

\* a filter was built for a normalized cutoff of 1.25: its center tap holds
\* 1.25 under a rectangular window, and the taps around it are numbers
C17_AboveNyquist ==
    /\ call.op = "create" /\ call.failed = "none"
    /\ 2 * call.cutoff_freq > call.sample_rate
    /\ call.type = "LOW_PASS" /\ call.window = "RECT"
    /\ Len(CreatedKernel) = 3
    /\ CreatedKernel[2] = F(1250000)
    /\ ~CreatedKernel[1].nan /\ CreatedKernel[1].v # 0


\* the coefficients the tests expect of create_fir_filter(LOW_PASS, HANNING,
\* 1000, 11, 8000), in units of 1 / SCALE, and the tolerance 1e-5
HanningVector == <<0, 0, 25921, 104168, 203586, 250000, 203586, 104168, 25921, 0, 0>>
within_tolerance(x, expected) == ~x.nan /\ Abs(x.v - expected) * 100000 <= SCALE

(* C18: create_fir_filter(LOW_PASS, HANNING, 1000, 11, 8000) yields eleven *)
(* coefficients that are, each within 1e-5, -0.0, 0.0, 0.02592097,         *)
(* 0.10416826, 0.20358594, 0.25, 0.20358594, 0.10416826, 0.02592097, 0.0,  *)
(* -0.0.                                                                   *)
C18_HanningVector ==
    (/\ call.op = "create" /\ call.failed = "none"
     /\ call.type = "LOW_PASS" /\ call.window = "HANNING"
     /\ call.cutoff_freq = 1000 /\ call.kernel_length = 11
     /\ call.sample_rate = 8000) =>
        /\ Len(CreatedKernel) = 11
        /\ \A i \in 1..11 : within_tolerance(CreatedKernel[i], HanningVector[i])

\* the filter of the example was built: eleven taps, 0.25 at the center
C18_HanningBuilt ==
    /\ call.op = "create" /\ call.failed = "none"
    /\ call.type = "LOW_PASS" /\ call.window = "HANNING"
    /\ call.cutoff_freq = 1000 /\ call.kernel_length = 11 /\ call.sample_rate = 8000
    /\ Len(CreatedKernel) = 11
    /\ CreatedKernel[6] = F(250000)
    /\ ~CreatedKernel[3].nan /\ CreatedKernel[3].v > 0


(***************************************************************************)
(* The allocations of a caller that destroys every filter it creates.     *)
(***************************************************************************)
(* C19: at the return of a create_fir_filter that built a filter exactly   *)
(* two blocks are live, the struct and the coefficients, and every other   *)
(* block the call allocated (the factorial table of a Kaiser window) has   *)
(* been freed; after destroy_fir_filter of the filter, and whenever the    *)
(* caller holds no filter, no block is live.                               *)
C19_NoLeak ==
    /\ (call.op = "create" /\ call.failed = "none") =>
          /\ Live(heap) = {call.ret, CreatedFields.coefficients}
          /\ Cardinality(Live(heap)) = 2
          /\ \A a \in call.allocated \ {call.ret, CreatedFields.coefficients} :
                ~heap[a].live /\ heap[a].frees = 1
    /\ (call.op = "destroy" /\ call.filter # NULL) => Live(heap) = {}
    /\ ~Usable(heap, filter) => Live(heap) = {}
    /\ Cardinality(Live(heap)) <= 2

\* a Kaiser filter was built: three blocks were allocated, the table is
\* freed, the struct and the coefficients are live
C19_KaiserBuilt ==
    /\ call.op = "create" /\ call.failed = "none"
    /\ call.window = "KAISER_B10"
    /\ Cardinality(call.allocated) = 3
    /\ Cardinality(Live(heap)) = 2
    /\ \E a \in call.allocated : ~heap[a].live /\ heap[a].frees = 1


(***************************************************************************)
(* The stores of generate_sinc: taps is the sequence of the stores of its  *)
(* loop, <<index, value>> for n = -(N-1)/2, ..., (N-1)/2 in this order.    *)
(***************************************************************************)
\* every index of 0..N-1 is stored to by exactly one tap, no other index is
\* stored to, and tap n (the store number n + (N-1)/2 + 1) stores at
\* n + (N-1)/2
one_tap_per_index(taps, N) ==
    /\ Len(taps) = N
    /\ \A k \in 1..Len(taps) : taps[k][1] \in 0..(N - 1)
    /\ \A i \in 0..(N - 1) : Cardinality({k \in 1..Len(taps) : taps[k][1] = i}) = 1
    /\ \A n \in (0 - ((N - 1) \div 2))..((N - 1) \div 2) :
          taps[n + ((N - 1) \div 2) + 1][1] = n + ((N - 1) \div 2)

\* the kernel holds at each index what the tap of that index stored
kernel_holds(kernel, taps) ==
    \A k \in 1..Len(taps) : kernel[taps[k][1] + 1] = taps[k][2]

(* C20: for a filter of N taps (N odd) generate_sinc stores tap n, for n   *)
(* from -(N-1)/2 to (N-1)/2, at index n + (N-1)/2: every index of 0..N-1   *)
(* is stored to by exactly one tap and no other index is stored to, and    *)
(* tap 0, which alone takes the value normalized_cutoff_freq, is at the    *)
(* center index (N-1)/2.                                                   *)
C20_TapsFillKernel ==
    (call.op = "create" /\ call.failed = "none") =>
        /\ CreatedFields.kernel_length % 2 = 1
        /\ call.written = 0..(CreatedFields.kernel_length - 1)
        /\ Len(CreatedKernel) = CreatedFields.kernel_length
        /\ one_tap_per_index(filter_taps(CreatedFields), CreatedFields.kernel_length)
        /\ kernel_holds(CreatedKernel, filter_taps(CreatedFields))
        /\ (call.window = "RECT" /\ call.type = "LOW_PASS") =>
              \A i \in 0..(CreatedFields.kernel_length - 1) :
                  (CreatedKernel[i + 1] =
                      normalized_cutoff_freq(call.cutoff_freq, call.sample_rate))
                  <=> (i = (CreatedFields.kernel_length - 1) \div 2)

\* a kernel of five taps under a rectangular window: index 2 holds the
\* normalized cutoff 0.25, and indices 0..4 were stored to
C20_FiveTapsStored ==
    /\ call.op = "create" /\ call.failed = "none"
    /\ call.window = "RECT" /\ call.type = "LOW_PASS"
    /\ CreatedFields.kernel_length = 5
    /\ call.written = {0, 1, 2, 3, 4}
    /\ CreatedKernel[3] = F(250000)
    /\ CreatedKernel[1] # F(250000)


(***************************************************************************)
(* The window position: both window functions divide by kernel_length - 1. *)
(***************************************************************************)
(* C21: for every filter create_fir_filter builds, kernel length 1         *)
(* included, the divisor N - 1 of the window position is not zero at any   *)
(* tap, and every coefficient stored is a defined number (no NaN).         *)
C21_CoefficientsDefined ==
    (call.op = "create" /\ call.failed = "none") =>
        /\ CreatedFields.kernel_length - 1 # 0
        /\ \A i \in 1..Len(CreatedKernel) : ~CreatedKernel[i].nan


(***************************************************************************)
(* apply_fir_filter on a filter that load_filter_from_file returned.       *)
(***************************************************************************)
(* C22: whatever the filter file holds, the call of apply_fir_filter in    *)
(* handle_apply_fir_filter writes output_signal only at indices of         *)
(* 0..L-1, reads the coefficients only at indices of 0..kernel_length-1    *)
(* and inside the array load_filter_from_file allocated, and reads the     *)
(* input only at indices of 0..L-1; no index is negative.                  *)
C22_LoadedFilterAccessesInBounds ==
    (call.op = "handle_apply" /\ ~call.exit) =>
        /\ call.writes \subseteq 0..(call.signal_length - 1)
        /\ \A r \in call.reads :
              /\ r[2] >= 0
              /\ r[1] = "coefficients" =>
                    r[2] \in 0..(call.kernel_length - 1) /\ r[2] < call.coefficients
              /\ r[1] = "input" => r[2] \in 0..(call.signal_length - 1)


\* C22 holds of the records whose kernel_length is positive, odd or even,
\* whether or not the file ends before the last coefficient
C22_PositiveLengthInBounds ==
    (call.op = "handle_apply" /\ ~call.exit /\ call.kernel_length >= 1) =>
        /\ call.writes \subseteq 0..(call.signal_length - 1)
        /\ \A r \in call.reads :
              /\ r[1] = "coefficients" =>
                    r[2] \in 0..(call.kernel_length - 1) /\ r[2] < call.coefficients
              /\ r[1] = "input" => r[2] \in 0..(call.signal_length - 1)


(***************************************************************************)
(* The output of apply_fir_filter as a function of what the output buffer  *)
(* held before the call.                                                   *)
(***************************************************************************)
\* what an output buffer of L elements may hold before a call: zeros, what
\* an earlier call left, NaNs, or a different value in every element
PriorOutputs(L) ==
    {[k \in 1..L |-> s] : s \in Stale \cup {NaN}} \cup {[k \in 1..L |-> ToFloat(k)]}

\* output[0..L-1] after the last call's filter, input and length are run on
\* an output buffer that holds prior
output_from(prior) ==
    apply_fir_filter(heap, call.filter, call.input_signal, call.output_signal,
                     call.signal_length,
                     [input |-> call.before.input, output |-> prior]).signals.output

(* C23: the output of apply_fir_filter does not depend on what the output  *)
(* buffer held before the call: after a call that passed the argument      *)
(* check, output[0..L-1] is what a run with the same filter, input and     *)
(* length ends with on every other prior content of the buffer, and two    *)
(* runs on the same prior content end the same.                            *)
C23_OutputIndependentOfPriorContents ==
    (call.op = "apply" /\ call.valid) =>
        \A prior \in PriorOutputs(call.signal_length) :
            \A output \in {output_from(prior)} :
                /\ Len(output) = call.signal_length
                /\ output = signals.output

\* a call whose buffer held 7 in every element, with both loops run (N = 3,
\* L = 3): no element is what it was, and a buffer of zeros ends the same
C23_ReusedBuffer ==
    /\ call.op = "apply" /\ call.valid
    /\ AppliedFields.kernel_length = 3 /\ call.signal_length = 3
    /\ \A k \in 1..3 : call.before.output[k] = ToFloat(7)
    /\ \A k \in 1..3 : ~signals.output[k].nan /\ signals.output[k] # ToFloat(7)
    /\ output_from([k \in 1..3 |-> ToFloat(0)]) = signals.output

====
